---- MODULE Spec2Model ----
(***************************************************************************)
(* Model of SetupDataPkg/Tools/SettingSupport/UefiVariablesSupportLinuxLib *)
(* (class UefiVariable): the efivarfs accessor with its three operations   *)
(* GetUefiVar, GetUefiAllVarNames and SetUefiVar.                          *)
(*                                                                         *)
(* Text is a sequence of one-character strings, a byte string a sequence   *)
(* of numbers 0..255.  The directory /sys/firmware/efi/efivars is the      *)
(* variable `store`: a function from entry names to file contents.  The    *)
(* fixed directory prefix of every path is left out of the keys.           *)
(***************************************************************************)
EXTENDS Integers, Sequences, FiniteSets, TLC

VARIABLES
    rootExists,   \* os.path.exists('/sys/firmware/efi/efivars')
    store,        \* the directory: entry name -> file content
    before,       \* history: the directory as it was when the last call began
    lastOp        \* history: the last call, its arguments and its outcome

vars == <<rootExists, store, before, lastOp>>

----------------------------------------------------------------------------
(* Bounds and input sets                                                   *)

\* Largest number of entries the directory holds (the firmware store is finite).
MaxVars == 2

\* Longest variable name the codec specification draws.
MaxNameLen == 4

\* UefiVariable.ERROR_ENVVAR_NOT_FOUND
ERROR_ENVVAR_NOT_FOUND == 203

\* attrs=None, the default of SetUefiVar's parameter
AttrsNone == -1

\* CPython (3.11, 64 bit) object sizes that sys.getsizeof reports
SizeofIntType == 424
SizeofBytesHeader == 33
SizeofBytearrayHeader == 57

Hyphen == "-"

HexDigits == <<"0","1","2","3","4","5","6","7","8","9","a","b","c","d","e","f">>

\* Two UUID values (uuid.UUID.bytes, big-endian field order).
Guid1 == <<1, 35, 69, 103, 137, 171, 205, 239, 1, 35, 69, 103, 137, 171, 205, 239>>
Guid2 == <<138, 190, 7, 16, 254, 220, 186, 152, 118, 84, 50, 16, 0, 17, 34, 51>>

\* The guid argument: a uuid.UUID object, or a str passed through as it is.
UuidArg(b) == [kind |-> "uuid", bytes |-> b, s |-> <<>>]
StrArg(s) == [kind |-> "str", bytes |-> <<>>, s |-> s]

UuidArgs == {UuidArg(Guid1), UuidArg(Guid2)}

\* The variables the calls name: two names under one GUID, one name under two
\* GUIDs, and one call whose guid is not a GUID.
Identities ==
    {<<<<"T">>, UuidArg(Guid1)>>, <<<<"T">>, UuidArg(Guid2)>>,
     <<<<"m", Hyphen, "v">>, UuidArg(Guid1)>>, <<<<"T">>, StrArg(<<"z", "z">>)>>}

\* The var argument: None (delete) or a byte string.
VarNone == [none |-> TRUE, bytes |-> <<>>]
VarArgs == {VarNone, [none |-> FALSE, bytes |-> <<1, 2>>], [none |-> FALSE, bytes |-> <<9>>]}

AttrArgs == {AttrsNone, 0, 7}

NameAlphabet == {"a", "0", Hyphen}

RECURSIVE StringsUpTo(_)
StringsUpTo(n) ==
    IF n = 0 THEN {<<>>}
    ELSE LET shorter == StringsUpTo(n - 1)
         IN  shorter \cup {Append(s, c) : s \in {t \in shorter : Len(t) = n - 1}, c \in NameAlphabet}

CodecNames == StringsUpTo(MaxNameLen) \ {<<>>}

----------------------------------------------------------------------------
(* Python and library primitives the three operations use                  *)

\* str.split(sep) for a one-character sep
RECURSIVE SplitFrom(_, _, _, _)
SplitFrom(s, sep, i, cur) ==
    IF i > Len(s) THEN <<cur>>
    ELSE IF s[i] = sep THEN <<cur>> \o SplitFrom(s, sep, i + 1, <<>>)
    ELSE SplitFrom(s, sep, i + 1, Append(cur, s[i]))

Split(s, sep) == SplitFrom(s, sep, 1, <<>>)

\* sep.join(parts)
RECURSIVE Join(_, _)
Join(parts, sep) ==
    IF Len(parts) = 0 THEN <<>>
    ELSE IF Len(parts) = 1 THEN parts[1]
    ELSE parts[1] \o <<sep>> \o Join(Tail(parts), sep)

\* parts[-n:]
LastN(parts, n) ==
    IF Len(parts) <= n THEN parts ELSE SubSeq(parts, Len(parts) - n + 1, Len(parts))

\* parts[:-n]
AllButLastN(parts, n) ==
    IF Len(parts) <= n THEN <<>> ELSE SubSeq(parts, 1, Len(parts) - n)

IsHex(c) == \E i \in 1..16 : HexDigits[i] = c

HexVal(c) == (CHOOSE i \in 1..16 : HexDigits[i] = c) - 1

HexOfByte(b) == <<HexDigits[(b \div 16) + 1], HexDigits[(b % 16) + 1]>>

RECURSIVE HexOfBytes(_)
HexOfBytes(bs) == IF bs = <<>> THEN <<>> ELSE HexOfByte(Head(bs)) \o HexOfBytes(Tail(bs))

\* str(uuid.UUID): '%032x' of the value, hyphenated 8-4-4-4-12
UuidStr(b) ==
    LET h == HexOfBytes(b)
    IN  SubSeq(h, 1, 8) \o <<Hyphen>> \o SubSeq(h, 9, 12) \o <<Hyphen>> \o SubSeq(h, 13, 16)
        \o <<Hyphen>> \o SubSeq(h, 17, 20) \o <<Hyphen>> \o SubSeq(h, 21, 32)

\* str(guid) and '%s' % guid
StrOfGuid(guid) == IF guid.kind = "uuid" THEN UuidStr(guid.bytes) ELSE guid.s

\* uuid.UUID(text): the hyphens are dropped, 32 hex digits must remain
\* (ValueError otherwise); the value as its 16 bytes
UuidParse(text) ==
    LET hex == SelectSeq(text, LAMBDA c : c # Hyphen)
    IN  IF Len(hex) # 32 \/ \E i \in 1..Len(hex) : ~IsHex(hex[i])
        THEN [ok |-> FALSE, bytes |-> <<>>]
        ELSE [ok |-> TRUE,
              bytes |-> [i \in 1..16 |-> 16 * HexVal(hex[2 * i - 1]) + HexVal(hex[2 * i])]]

\* uuid.UUID.bytes_le: the first three fields byte-swapped
BytesLe(b) == <<b[4], b[3], b[2], b[1], b[6], b[5], b[8], b[7]>> \o SubSeq(b, 9, 16)

\* ord(c) of the characters the model uses
Ord(c) ==
    CASE c = Hyphen -> 45
      [] c = "T" -> 84
      [] c = "m" -> 109
      [] c = "v" -> 118
      [] c = "z" -> 122
      [] IsHex(c) /\ HexVal(c) < 10 -> 48 + HexVal(c)
      [] OTHER -> 87 + HexVal(c)

\* text.encode('utf-16'): the byte order mark, then each code unit low byte first
RECURSIVE Utf16Units(_)
Utf16Units(text) ==
    IF text = <<>> THEN <<>>
    ELSE <<Ord(Head(text)) % 256, Ord(Head(text)) \div 256>> \o Utf16Units(Tail(text))

EncodeUtf16(text) == <<255, 254>> \o Utf16Units(text)

\* sys.getsizeof of a bytes object and of a bytearray
SizeofBytes(bs) == SizeofBytesHeader + Len(bs)
SizeofBytearray(bs) == SizeofBytearrayHeader + Len(bs)

\* struct.pack('=I', n): four bytes in the byte order of the host.  UEFI is
\* defined for little-endian hosts only, so the low byte comes first.
PackU32(n) ==
    <<n % 256, (n \div 256) % 256, (n \div 65536) % 256, (n \div 16777216) % 256>>

----------------------------------------------------------------------------
(* The name/GUID codec                                                     *)

\* name + '-%s' % guid  (GetUefiVar)  and  name + '-' + str(guid)  (SetUefiVar)
Path(name, guid) == name \o <<Hyphen>> \o StrOfGuid(guid)

\* A decode that takes the text before the first hyphen as the name.
DecodeAtFirstHyphen(var) ==
    LET split_string == Split(var, Hyphen)
        parsed == UuidParse(Join(Tail(split_string), Hyphen))
    IN  IF ~parsed.ok
        THEN [ok |-> FALSE, guid |-> <<>>, name |-> <<>>]
        ELSE [ok |-> TRUE, guid |-> BytesLe(parsed.bytes), name |-> Head(split_string)]

\* GetUefiAllVarNames, per entry: the last five hyphen-separated parts are the
\* GUID (as bytes_le), the parts before them, rejoined, the name.  ok = FALSE
\* stands for the ValueError of uuid.UUID.
Decode(var) ==
    LET split_string == Split(var, Hyphen)
        parsed == UuidParse(Join(LastN(split_string, 5), Hyphen))
    IN  IF ~parsed.ok
        THEN [ok |-> FALSE, guid |-> <<>>, name |-> <<>>]
        ELSE [ok |-> TRUE, guid |-> BytesLe(parsed.bytes),
              name |-> Join(AllButLastN(split_string, 5), Hyphen)]

NoDecode == [ok |-> FALSE, guid |-> <<>>, name |-> <<>>]

----------------------------------------------------------------------------
(* Outcomes.  raised = "none": the call returned.  status is the returned   *)
(* err / status / success number; dataNone says the returned data or buffer *)
(* is None, and data is <<>> then.  The third element of GetUefiVar's tuple *)
(* is None on both of its return statements.                                *)

Returned(status, dataNone, data) ==
    [raised |-> "none", status |-> status, dataNone |-> dataNone, data |-> data]

Raised(exc) == [raised |-> exc, status |-> 0, dataNone |-> TRUE, data |-> <<>>]

NoResult == Raised("nothing called")

EmptyDir == [p \in {} |-> <<>>]

----------------------------------------------------------------------------
(* GetUefiVar                                                              *)

GetUefiVarAlwaysReads(dir, name, guid) ==
    LET path == Path(name, guid)
    IN  Returned(0, FALSE, IF path \in DOMAIN dir THEN dir[path] ELSE <<>>)

GetUefiVarResult(dir, name, guid) ==
    LET path == Path(name, guid)
    IN  IF path \notin DOMAIN dir
        THEN Returned(ERROR_ENVVAR_NOT_FOUND, TRUE, <<>>)
        ELSE Returned(0, FALSE, dir[path])

----------------------------------------------------------------------------
(* SetUefiVar                                                              *)

DefaultAttrsIfFalsy(attrs) == IF attrs = AttrsNone \/ attrs = 0 THEN 7 ELSE attrs

\* if attrs is None: attrs = 0x7
DefaultAttrs(attrs) == IF attrs = AttrsNone THEN 7 ELSE attrs

\* packed = struct.pack('=I', attrs); packed += var
FileContent(var, attrs) == PackU32(DefaultAttrs(attrs)) \o var

\* A write that appends to what the file holds.
AppendFile(dir, path, content) ==
    [q \in DOMAIN dir \cup {path} |->
        IF q = path THEN (IF path \in DOMAIN dir THEN dir[path] ELSE <<>>) \o content
        ELSE dir[q]]

\* open(path, 'wb') ... fd.write(packed): the file is created or truncated
WriteFile(dir, path, content) ==
    [q \in DOMAIN dir \cup {path} |-> IF q = path THEN content ELSE dir[q]]

\* A remove that takes every entry of the same variable name with it.
RemoveByName(dir, path) ==
    LET name == Decode(path).name
    IN  [q \in {r \in DOMAIN dir : r # path /\ Decode(r).name # name} |-> dir[q]]

\* os.remove(path)
RemoveFile(dir, path) == [q \in DOMAIN dir \ {path} |-> dir[q]]

DeleteAlwaysSucceeds(root, dir, name, guid, var, attrs) ==
    LET path == Path(name, guid)
    IN  IF var.none THEN Returned(1, TRUE, <<>>)
        ELSE IF ~root THEN Raised("FileNotFoundError")
        ELSE Returned(1, TRUE, <<>>)

\* What SetUefiVar returns or raises.
SetUefiVarResult(root, dir, name, guid, var, attrs) ==
    LET path == Path(name, guid)
    IN  IF var.none
        THEN Returned(IF path \in DOMAIN dir THEN 1 ELSE 0, TRUE, <<>>)
        ELSE IF ~root THEN Raised("FileNotFoundError")
        ELSE Returned(1, TRUE, <<>>)

\* The directory SetUefiVar leaves.
SetUefiVarStore(root, dir, name, guid, var, attrs) ==
    LET path == Path(name, guid)
    IN  IF var.none
        THEN (IF path \in DOMAIN dir THEN RemoveFile(dir, path) ELSE dir)
        ELSE IF ~root THEN dir
        ELSE WriteFile(dir, path, FileContent(var.bytes, attrs))

----------------------------------------------------------------------------
(* GetUefiAllVarNames                                                      *)

\* for var in vars: length += sys.getsizeof(int) + sys.getsizeof(var.encode('utf-16'))
RECURSIVE BufferLength(_)
BufferLength(entries) ==
    IF entries = <<>> THEN 0
    ELSE SizeofIntType + SizeofBytes(EncodeUtf16(Head(entries))) + BufferLength(Tail(entries))

\* create_string_buffer(length)
CreateStringBuffer(length) == [i \in 1..length |-> 0]

\* efi_var_names[offset] = value on a ctypes char array: one element takes
\* one byte, anything longer is a TypeError.
SetItem(buf, offset, value) ==
    IF Len(value) # 1 THEN [raised |-> "TypeError", buf |-> buf]
    ELSE IF offset >= Len(buf) THEN [raised |-> "IndexError", buf |-> buf]
    ELSE [raised |-> "none", buf |-> [buf EXCEPT ![offset + 1] = value[1]]]

\* One pass of the second loop, for the entry var at cursor offset.  The
\* NextEntryOffset store of four packed bytes into one element raises; were it
\* to pass, the VendorGuid line asks the struct module for `packed`, which it
\* does not have.  No pass ends normally.
RecordStep(buf, offset, var) ==
    LET d == Decode(var)
        name == EncodeUtf16(d.name)
        next == PackU32(SizeofIntType + SizeofBytes(name) + SizeofBytearray(d.guid))
    IN  IF ~d.ok THEN "Exception"
        ELSE IF SetItem(buf, offset, next).raised # "none"
             THEN SetItem(buf, offset, next).raised
        ELSE "AttributeError"

\* What GetUefiAllVarNames returns or raises when os.listdir gives entries.
GetUefiAllVarNamesResult(root, entries) ==
    IF ~root THEN Returned(ERROR_ENVVAR_NOT_FOUND, TRUE, <<>>)
    ELSE LET length == BufferLength(entries)
             efi_var_names == CreateStringBuffer(length)
         IN  IF entries = <<>> THEN Returned(0, FALSE, efi_var_names)
             ELSE Raised(RecordStep(efi_var_names, 0, entries[1]))

\* os.listdir: the entries in an order the file system chooses
Listings(dir) ==
    {o \in [1..Cardinality(DOMAIN dir) -> DOMAIN dir] :
        \A i, j \in 1..Cardinality(DOMAIN dir) : o[i] = o[j] => i = j}

----------------------------------------------------------------------------
(* The state machine                                                       *)

Call(op, name, guid, var, attrs, order, res, dec) ==
    [op |-> op, name |-> name, guid |-> guid, var |-> var, attrs |-> attrs,
     order |-> order, res |-> res, dec |-> dec]

NoCall == Call("Init", <<>>, StrArg(<<>>), VarNone, AttrsNone, <<>>, NoResult, NoDecode)

Init ==
    /\ rootExists \in BOOLEAN
    /\ store = EmptyDir
    /\ before = EmptyDir
    /\ lastOp = NoCall

GetUefiVar(name, guid) ==
    /\ lastOp' = Call("Get", name, guid, VarNone, AttrsNone, <<>>,
                      GetUefiVarResult(store, name, guid), NoDecode)
    /\ before' = store
    /\ UNCHANGED <<rootExists, store>>

GetUefiAllVarNames(order) ==
    /\ lastOp' = Call("List", <<>>, StrArg(<<>>), VarNone, AttrsNone, order,
                      GetUefiAllVarNamesResult(rootExists, order), NoDecode)
    /\ before' = store
    /\ UNCHANGED <<rootExists, store>>

SetUefiVar(name, guid, var, attrs) ==
    /\ Path(name, guid) \in DOMAIN store \/ Cardinality(DOMAIN store) < MaxVars
    /\ lastOp' = Call("Set", name, guid, var, attrs, <<>>,
                      SetUefiVarResult(rootExists, store, name, guid, var, attrs), NoDecode)
    /\ store' = SetUefiVarStore(rootExists, store, name, guid, var, attrs)
    /\ before' = store
    /\ UNCHANGED rootExists

Next ==
    \/ \E id \in Identities : GetUefiVar(id[1], id[2])
    \/ \E order \in Listings(store) : GetUefiAllVarNames(order)
    \/ \E id \in Identities, var \in VarArgs, attrs \in AttrArgs :
           SetUefiVar(id[1], id[2], var, attrs)

Spec == Init /\ [][Next]_vars

\* The codec on its own: an identity is encoded as SetUefiVar and GetUefiVar
\* compose the entry name, and the entry name decoded as GetUefiAllVarNames does.
InitCodec ==
    /\ rootExists = TRUE
    /\ store = EmptyDir
    /\ before = EmptyDir
    /\ lastOp = NoCall

EncodeDecode(name, guid) ==
    /\ lastOp' = Call("Codec", name, guid, VarNone, AttrsNone, <<Path(name, guid)>>,
                      NoResult, Decode(Path(name, guid)))
    /\ UNCHANGED <<rootExists, store, before>>

NextCodec == \E name \in CodecNames, guid \in UuidArgs : EncodeDecode(name, guid)

SpecCodec == InitCodec /\ [][NextCodec]_vars

----------------------------------------------------------------------------
(* Vocabulary of the properties                                            *)

IsSet == lastOp.op = "Set"
IsWrite == IsSet /\ ~lastOp.var.none
IsDelete == IsSet /\ lastOp.var.none
IsGet == lastOp.op = "Get"
IsList == lastOp.op = "List"
LastPath == Path(lastOp.name, lastOp.guid)
ReturnedOk == lastOp.res.raised = "none"

\* n as four bytes, least significant first
LittleEndian4(n) == [i \in 1..4 |-> (n \div (256 ^ (i - 1))) % 256]

\* The value of four little-endian bytes
FromLittleEndian4(b) == b[1] + 256 * b[2] + 65536 * b[3] + 16777216 * b[4]

\* An entry name "<name>-<8-4-4-4-12 hex GUID>"
WellFormed(entry) ==
    LET parts == Split(entry, Hyphen)
        g == LastN(parts, 5)
    IN  /\ Len(parts) >= 5
        /\ <<Len(g[1]), Len(g[2]), Len(g[3]), Len(g[4]), Len(g[5])>> = <<8, 4, 4, 4, 12>>
        /\ \A k \in 1..5 : \A i \in 1..Len(g[k]) : IsHex(g[k][i])

\* The record of the enumeration buffer that stands for a well-formed entry:
\* the GUID in its little-endian layout and the name as UTF-16 code units
RecordOf(entry) == [guid |-> Decode(entry).guid, name |-> Utf16Units(Decode(entry).name)]

\* 4 (offset field) + 16 (GUID) + 2 bytes per UTF-16 code unit of the name
RecordLength(entry) == 4 + 16 + 2 * Len(Decode(entry).name)

RECURSIVE SumRecordLengths(_)
SumRecordLengths(entries) ==
    IF entries = <<>> THEN 0 ELSE RecordLength(Head(entries)) + SumRecordLengths(Tail(entries))

\* The records met walking buf from byte offset off by NextEntryOffset; a walk
\* that leaves the buffer, or does not advance past a record header, ends with
\* the marker record [guid |-> <<>>, name |-> <<>>].
RECURSIVE WalkFrom(_, _)
WalkFrom(buf, off) ==
    IF off = Len(buf) THEN <<>>
    ELSE IF off + 20 > Len(buf) THEN <<[guid |-> <<>>, name |-> <<>>]>>
    ELSE LET next == FromLittleEndian4(SubSeq(buf, off + 1, off + 4))
         IN  IF next < 20 \/ off + next > Len(buf) THEN <<[guid |-> <<>>, name |-> <<>>]>>
             ELSE <<[guid |-> SubSeq(buf, off + 5, off + 20),
                     name |-> SubSeq(buf, off + 21, off + next)]>>
                  \o WalkFrom(buf, off + next)

\* The records a call handed back: none when it raised or returned no buffer
RecordsReturned(res) ==
    IF res.raised = "none" /\ ~res.dataNone THEN WalkFrom(res.data, 0) ELSE <<>>

\* The last call listed a directory that exists and holds well-formed entries only
ListedWellFormed ==
    /\ IsList
    /\ rootExists
    /\ \A i \in 1..Len(lastOp.order) : WellFormed(lastOp.order[i])

----------------------------------------------------------------------------
(* C1                                                                      *)

\* C1: once SetUefiVar(name, guid, var, attrs) with a payload and 32-bit attrs has
\* returned success, GetUefiVar(name, guid) returns (0, bytes, None) where bytes
\* is the four little-endian bytes of attrs followed by the payload and nothing
\* else, whatever the entry held before.
C1_WriteReadRoundTrip ==
    (IsWrite /\ ReturnedOk /\ lastOp.res.status = 1 /\ lastOp.attrs # AttrsNone)
        => GetUefiVarResult(store, lastOp.name, lastOp.guid)
               = Returned(0, FALSE, LittleEndian4(lastOp.attrs) \o lastOp.var.bytes)

\* A write of attrs 7, payload 01 02 over an entry that held something else
\* left 07 00 00 00 01 02.
C1_Witness ==
    /\ IsWrite /\ ReturnedOk /\ lastOp.res.status = 1
    /\ lastOp.attrs = 7 /\ lastOp.var.bytes = <<1, 2>>
    /\ LastPath \in DOMAIN before
    /\ before[LastPath] # store[LastPath]
    /\ store[LastPath] = <<7, 0, 0, 0, 1, 2>>

----------------------------------------------------------------------------
(* C2                                                                      *)

\* The outcome of one delete, against the directory it found
DeleteOutcome ==
    IsDelete =>
        /\ ReturnedOk
        /\ LastPath \in DOMAIN before =>
               (lastOp.res.status = 1 /\ store = [q \in DOMAIN before \ {LastPath} |-> before[q]])
        /\ LastPath \notin DOMAIN before => (lastOp.res.status = 0 /\ store = before)

\* A delete straight after a delete of the same variable returns 0
DeleteAgain ==
    (/\ IsDelete
     /\ lastOp'.op = "Set" /\ lastOp'.var.none
     /\ lastOp'.name = lastOp.name /\ lastOp'.guid = lastOp.guid)
        => (lastOp'.res.raised = "none" /\ lastOp'.res.status = 0 /\ store' = store)

\* C2: SetUefiVar(name, guid, None) never raises; it removes an existing entry
\* and returns 1, and returns 0 and changes nothing when there is none; so of
\* two deletes in a row the second (and every further one) returns 0.
C2_DeleteIdempotent == []DeleteOutcome /\ [][DeleteAgain]_vars

\* A delete removed an existing entry and returned 1, and a second delete of
\* it would now return 0.
C2_Witness ==
    /\ IsDelete /\ ReturnedOk /\ lastOp.res.status = 1
    /\ LastPath \in DOMAIN before /\ LastPath \notin DOMAIN store
    /\ SetUefiVarResult(rootExists, store, lastOp.name, lastOp.guid, VarNone, AttrsNone).status = 0

----------------------------------------------------------------------------
(* C3                                                                      *)

\* C3: GetUefiVar of an entry that is not in the directory returns
\* (0xCB, None, None) without raising, also right after a delete of it, and it
\* returns status 0 only when the entry exists.
C3_NotFound ==
    /\ IsGet =>
           /\ ReturnedOk
           /\ LastPath \notin DOMAIN store
                  => lastOp.res = Returned(ERROR_ENVVAR_NOT_FOUND, TRUE, <<>>)
           /\ lastOp.res.status = 0 => LastPath \in DOMAIN store
    /\ IsDelete =>
           GetUefiVarResult(store, lastOp.name, lastOp.guid)
               = Returned(ERROR_ENVVAR_NOT_FOUND, TRUE, <<>>)

\* A read of an absent entry returned 0xCB while the directory held another
\* variable of the same name.
C3_Witness ==
    /\ IsGet /\ lastOp.res.status = ERROR_ENVVAR_NOT_FOUND /\ lastOp.res.dataNone
    /\ LastPath \notin DOMAIN store
    /\ \E q \in DOMAIN store : Decode(q).ok /\ Decode(q).name = lastOp.name

----------------------------------------------------------------------------
(* C4                                                                      *)

\* C4: for a directory of N well-formed entries, walking the returned buffer
\* from offset 0 by NextEntryOffset visits exactly N record starts and lands
\* exactly on the end of the buffer.
C4_OffsetChain ==
    ListedWellFormed =>
        /\ ReturnedOk /\ ~lastOp.res.dataNone
        /\ Len(WalkFrom(lastOp.res.data, 0)) = Len(lastOp.order)
        /\ \A i \in 1..Len(WalkFrom(lastOp.res.data, 0)) :
               WalkFrom(lastOp.res.data, 0)[i].guid # <<>>

----------------------------------------------------------------------------
(* C5                                                                      *)

\* C5: for a directory of N well-formed entries, the buffer returned has
\* length exactly the sum over the entries of 4 + 16 + 2 * (UTF-16 code units
\* of the decoded name).
C5_BufferSize ==
    ListedWellFormed =>
        /\ ReturnedOk /\ ~lastOp.res.dataNone
        /\ Len(lastOp.res.data) = SumRecordLengths(lastOp.order)

----------------------------------------------------------------------------
(* C6                                                                      *)

\* C6: when the directory holds an entry that is not well-formed,
\* GetUefiAllVarNames fails with the could-not-parse error and hands back no
\* buffer, wherever the entry sits in the listing.
C6_MalformedAbort ==
    (IsList /\ rootExists /\ \E i \in 1..Len(lastOp.order) : ~WellFormed(lastOp.order[i]))
        => (lastOp.res.raised = "Exception" /\ lastOp.res.dataNone)

----------------------------------------------------------------------------
(* C7                                                                      *)

\* C7: for every non-empty name, hyphens included, and every GUID, decoding
\* the entry name "<name>-<canonical GUID>" gives back the name and the GUID
\* (the decoded GUID being the 16 bytes of its little-endian layout).
C7_CodecRoundTrip ==
    lastOp.op = "Codec" =>
        /\ lastOp.dec.ok
        /\ lastOp.dec.name = lastOp.name
        /\ BytesLe(lastOp.dec.guid) = lastOp.guid.bytes

\* The name "a-0-" with Guid2 went through the codec.
C7_Witness ==
    /\ lastOp.op = "Codec"
    /\ lastOp.name = <<"a", Hyphen, "0", Hyphen>>
    /\ lastOp.guid = UuidArg(Guid2)
    /\ lastOp.dec.ok

----------------------------------------------------------------------------
(* C8                                                                      *)

\* C8: a write with attrs None stores 07 00 00 00 and the payload, the same
\* bytes as the same call with attrs 7; an attrs value that is given, 0
\* included, is stored as given.
C8_DefaultAttributes ==
    (IsWrite /\ ReturnedOk) =>
        /\ lastOp.attrs = AttrsNone =>
               /\ store[LastPath] = <<7, 0, 0, 0>> \o lastOp.var.bytes
               /\ store = SetUefiVarStore(rootExists, before, lastOp.name, lastOp.guid,
                                          lastOp.var, 7)
        /\ lastOp.attrs # AttrsNone =>
               store[LastPath] = LittleEndian4(lastOp.attrs) \o lastOp.var.bytes

\* A write without attrs stored 07 00 00 00 09.
C8_Witness ==
    /\ IsWrite /\ ReturnedOk /\ lastOp.attrs = AttrsNone
    /\ store[LastPath] = <<7, 0, 0, 0, 9>>

----------------------------------------------------------------------------
(* C9                                                                      *)

----------------------------------------------------------------------------
(* C10                                                                     *)

\* C10: GetUefiVar and GetUefiAllVarNames leave the directory as it was,
\* return or raise; SetUefiVar(name, guid, ...) changes at most the entry of
\* (name, guid): every other entry keeps its presence and its content.
C10_Frame ==
    /\ (IsGet \/ IsList) => store = before
    /\ IsSet =>
           \A q \in (DOMAIN before \cup DOMAIN store) \ {LastPath} :
               q \in DOMAIN before /\ q \in DOMAIN store /\ store[q] = before[q]

\* A delete of one variable left a variable of the same name and another GUID
\* in place.
C10_Witness ==
    /\ IsDelete /\ lastOp.res.status = 1
    /\ \E q \in DOMAIN store :
           /\ q # LastPath
           /\ Decode(q).ok /\ Decode(q).name = lastOp.name
           /\ q \in DOMAIN before /\ store[q] = before[q]

====
